---- MODULE Spec2Model ----
(***************************************************************************)
(* Backbone assembly of maskrcnn_benchmark: the stage-spec catalogue, the  *)
(* ResNet constructor (stem, stride schedule, stage loop, freezing), the   *)
(* stage builder _make_stage, the backbone builders of backbone.py, the    *)
(* GeneralizedRCNN constructor and ResNet.forward.                         *)
(*                                                                         *)
(* Conventions: the module name "layer<i>" is represented by the integer   *)
(* i and the stem by 0; Python lists are sequences, read with the 0-based  *)
(* operator Idx; a tensor is represented by the sequence of modules that   *)
(* have been applied to the input.                                         *)
(***************************************************************************)
EXTENDS Integers, Sequences, FiniteSets, TLC

VARIABLES
    cfg,              \* the configuration object (read-only)
    pc,               \* position of the construction / forward pass
    error,            \* the exception or exit that ended the run, if any
    stem,             \* self.stem of ResNet
    strides,          \* local `strides` of ResNet.__init__
    in_channels,      \* local `in_channels` of ResNet.__init__
    stage_idx,        \* loop counter of the stage loop
    layers,           \* the modules registered with add_module, by name
    stages,           \* self.stages: the list of stage names
    return_features,  \* self.return_features: name -> bool
    calls,            \* the arguments of every _make_stage call made so far
    stage_index,      \* loop counter of _freeze_backbone
    model,            \* the nn.Sequential the builder returns
    rpn,              \* in_channels handed to build_rpn
    roi_heads,        \* in_channels handed to build_roi_heads
    x,                \* the running tensor of ResNet.forward
    outputs,          \* the list ResNet.forward accumulates
    fwd_idx,          \* position of ResNet.forward in self.stages
    call              \* a direct call of one function: arguments and result

vars == <<cfg, pc, error, stem, strides, in_channels, stage_idx, layers,
          stages, return_features, calls, stage_index, model, rpn,
          roi_heads, x, outputs, fwd_idx, call>>

-----------------------------------------------------------------------------
(* Bounds of the model *)

MaxFreeze == 6        \* FREEZE_CONV_BODY_AT ranges over -1..MaxFreeze
MaxDilLen == 4        \* DILATIONS has 2..MaxDilLen entries
MaxBlockCount == 3    \* block_count of a direct _make_stage call
MaxSize == 8          \* spatial size of the input of a single block
MaxBranches == 3      \* entries of a branch specification list

-----------------------------------------------------------------------------
(* Python helpers *)

\* seq[i] for a 0-based, non-negative index i; defined iff InRange(seq, i)
Idx(seq, i) == seq[i + 1]
InRange(seq, i) == i >= 0 /\ i < Len(seq)

\* truth value of a Python tuple: a tuple is false only when it is empty
TupleTruth(t) == Len(t) # 0

NoError == [kind |-> "none", at |-> "none"]
Raise(kind, at) == [kind |-> kind, at |-> at]

-----------------------------------------------------------------------------
(* The stage-spec catalogue, resnet.py 33-102 and 755-770 *)

StageSpec(i, c, r) == [index |-> i, block_count |-> c, return_features |-> r]

ResNet50StagesTo5 ==
    << StageSpec(1, 3, FALSE), StageSpec(2, 4, FALSE),
       StageSpec(3, 6, FALSE), StageSpec(4, 3, TRUE) >>
ResNet50StagesTo4 ==
    << StageSpec(1, 3, FALSE), StageSpec(2, 4, FALSE), StageSpec(3, 6, TRUE) >>
ResNet101StagesTo5 ==
    << StageSpec(1, 3, FALSE), StageSpec(2, 4, FALSE),
       StageSpec(3, 23, FALSE), StageSpec(4, 3, TRUE) >>
ResNet101StagesTo4 ==
    << StageSpec(1, 3, FALSE), StageSpec(2, 4, FALSE), StageSpec(3, 23, TRUE) >>
ResNet50FPNStagesTo5 ==
    << StageSpec(1, 3, TRUE), StageSpec(2, 4, TRUE),
       StageSpec(3, 6, TRUE), StageSpec(4, 3, TRUE) >>
ResNet101FPNStagesTo5 ==
    << StageSpec(1, 3, TRUE), StageSpec(2, 4, TRUE),
       StageSpec(3, 23, TRUE), StageSpec(4, 3, TRUE) >>
ResNet152FPNStagesTo5 ==
    << StageSpec(1, 3, TRUE), StageSpec(2, 8, TRUE),
       StageSpec(3, 36, TRUE), StageSpec(4, 3, TRUE) >>
ResNet50_3_4_2 ==
    << StageSpec(1, 3, FALSE), StageSpec(2, 4, FALSE), StageSpec(3, 2, TRUE) >>
ResNet50_3_4_8 ==
    << StageSpec(1, 3, FALSE), StageSpec(2, 4, FALSE), StageSpec(3, 8, TRUE) >>
ResNet50_3_4_14 ==
    << StageSpec(1, 3, FALSE), StageSpec(2, 4, FALSE), StageSpec(3, 14, TRUE) >>
ResNet50_3_4_20 ==
    << StageSpec(1, 3, FALSE), StageSpec(2, 4, FALSE), StageSpec(3, 20, TRUE) >>

\* the names registered in _STAGE_SPECS
StageSpecNames ==
    { "R-50-C4", "R-50-C5", "R-101-C4", "R-101-C5", "R-50-FPN",
      "R-50-FPN-RETINANET", "R-101-FPN", "R-101-FPN-RETINANET", "R-152-FPN",
      "R-50-3_4_2", "R-50-3_4_8", "R-50-3_4_14", "R-50-3_4_20" }

\* _STAGE_SPECS[name]
STAGE_SPECS(name) ==
    CASE name = "R-50-C4" -> ResNet50StagesTo4
      [] name = "R-50-C5" -> ResNet50StagesTo5
      [] name = "R-101-C4" -> ResNet101StagesTo4
      [] name = "R-101-C5" -> ResNet101StagesTo5
      [] name = "R-50-FPN" -> ResNet50FPNStagesTo5
      [] name = "R-50-FPN-RETINANET" -> ResNet50FPNStagesTo5
      [] name = "R-101-FPN" -> ResNet101FPNStagesTo5
      [] name = "R-101-FPN-RETINANET" -> ResNet101FPNStagesTo5
      [] name = "R-152-FPN" -> ResNet152FPNStagesTo5
      [] name = "R-50-3_4_2" -> ResNet50_3_4_2
      [] name = "R-50-3_4_8" -> ResNet50_3_4_8
      [] name = "R-50-3_4_14" -> ResNet50_3_4_14
      [] name = "R-50-3_4_20" -> ResNet50_3_4_20

-----------------------------------------------------------------------------
(* The backbone registry, backbone.py 16-121 *)

\* faulty variant of BACKBONES: a name that is not registered falls back to the
\* plain ResNet builder
BACKBONES_Fallback(name) ==
    CASE name \in { "R-50-FPN", "R-101-FPN", "R-152-FPN" }
                                    -> "build_resnet_fpn_backbone"
      [] name \in { "R-50-FPN-RETINANET", "R-101-FPN-RETINANET" }
                                    -> "build_resnet_fpn_p3p7_backbone"
      [] OTHER                      -> "build_resnet_backbone"

\* the builder registered for a name in registry.BACKBONES
BACKBONES(name) ==
    CASE name \in { "R-50-C4", "R-50-C5", "R-101-C4", "R-101-C5",
                    "R-50-3_4_2", "R-50-3_4_8", "R-50-3_4_14",
                    "R-50-3_4_20" } -> "build_resnet_backbone"
      [] name \in { "R-50-FPN", "R-101-FPN", "R-152-FPN" }
                                    -> "build_resnet_fpn_backbone"
      [] name \in { "R-50-FPN-RETINANET", "R-101-FPN-RETINANET" }
                                    -> "build_resnet_fpn_p3p7_backbone"
      [] name \in { "DDPP", "DDPP-SS", "DDPPv2", "DDPPv2-SS" }
                                    -> "build_ddpp_backbone"
      [] name = "Custom-C4"         -> "build_custom_resnet_backbone"
      [] OTHER                      -> "unregistered"

-----------------------------------------------------------------------------
(* The residual block, resnet.py 523-628 *)

\* Bottleneck.__init__: the geometry of one block.  requires_grad stands for
\* the requires_grad flag of the block's parameters (the convolution weights)
Bottleneck(in_ch, bottleneck_channels, out_channels, num_groups, stride_in_1x1, stride, dilation, with_dcn, middle_k, use_unfixed_bn) ==
    [ in_channels         |-> in_ch,
      bottleneck_channels |-> bottleneck_channels,
      out_channels        |-> out_channels,
      num_groups          |-> num_groups,
      stride              |-> stride,
      downsample          |-> (in_ch # out_channels),
      stride_1x1          |-> IF stride_in_1x1 THEN stride ELSE 1,
      stride_3x3          |-> IF stride_in_1x1 THEN 1 ELSE stride,
      dilation            |-> dilation,
      with_dcn            |-> with_dcn,
      middle_k            |-> middle_k,
      \* -1: the deformable operator DFConv2d chooses its own padding
      padding             |-> IF with_dcn THEN -1
                              ELSE IF middle_k = 1 THEN 0 ELSE dilation,
      use_unfixed_bn      |-> use_unfixed_bn,
      requires_grad       |-> TRUE ]

-----------------------------------------------------------------------------
(* The stage builder, resnet.py 483-520 *)

\* the argument record of a _make_stage call
StageArgs(in_ch, bottleneck_channels, out_channels, block_count, num_groups, stride_in_1x1, first_stride, dilation, with_dcn, middle_ks, use_unfixed_bn) ==
    [ in_channels         |-> in_ch,
      bottleneck_channels |-> bottleneck_channels,
      out_channels        |-> out_channels,
      block_count         |-> block_count,
      num_groups          |-> num_groups,
      stride_in_1x1       |-> stride_in_1x1,
      first_stride        |-> first_stride,
      dilation            |-> dilation,
      with_dcn            |-> with_dcn,
      middle_ks           |-> middle_ks,
      use_unfixed_bn      |-> use_unfixed_bn ]

\* [3 for _ in range(block_count)]
DefaultMiddleKs(block_count) == [i \in 1..block_count |-> 3]

\* lines 498-499: an empty (falsy) list is replaced by the default
EffectiveMiddleKs(middle_ks, block_count) ==
    IF middle_ks = <<>> THEN DefaultMiddleKs(block_count) ELSE middle_ks

\* faulty variant of BlockStep: `stride = 1` is forgotten
BlockStep_KeepStride(a, mks, i, st) ==
    [ blocks      |-> Append(st.blocks,
                        Bottleneck(st.in_channels, a.bottleneck_channels,
                                   a.out_channels, a.num_groups,
                                   a.stride_in_1x1, st.stride, a.dilation,
                                   a.with_dcn, Idx(mks, i),
                                   a.use_unfixed_bn)),
      stride      |-> st.stride,
      in_channels |-> a.out_channels ]

\* one iteration of the block loop (lines 504-519) for a valid index i;
\* st holds the loop's running values blocks, stride and in_channels
BlockStep(a, mks, i, st) ==
    [ blocks      |-> Append(st.blocks,
                        Bottleneck(st.in_channels, a.bottleneck_channels,
                                   a.out_channels, a.num_groups,
                                   a.stride_in_1x1, st.stride, a.dilation,
                                   a.with_dcn, Idx(mks, i),
                                   a.use_unfixed_bn)),
      stride      |-> 1,
      in_channels |-> a.out_channels ]

RECURSIVE BlockLoop(_, _, _, _)
\* the loop `for i in range(block_count)`; middle_ks[i] raises IndexError
\* when the list has no entry i
BlockLoop(a, mks, i, st) ==
    IF i >= a.block_count THEN [ok |-> TRUE, blocks |-> st.blocks]
    ELSE IF ~InRange(mks, i) THEN [ok |-> FALSE, blocks |-> st.blocks]
    ELSE BlockLoop(a, mks, i + 1, BlockStep(a, mks, i, st))

\* _make_stage(a): ok and the blocks of the nn.Sequential, or not ok
\* (IndexError)
MakeStage(a) ==
    BlockLoop(a, EffectiveMiddleKs(a.middle_ks, a.block_count), 0,
              [ blocks |-> <<>>, stride |-> a.first_stride,
                in_channels |-> a.in_channels ])

-----------------------------------------------------------------------------
(* The configurations the model is run on *)

\* CONV_BODY: every name of the catalogue and one name that is registered
\* nowhere
ConvBodies == StageSpecNames \cup {"VGG-16"}

SpecOf(body) == IF body \in StageSpecNames THEN STAGE_SPECS(body) ELSE <<>>

ResRegs == {0, 2, 3}                 \* RESREG: off, Up2x, an invalid value
AnchorStrides == {4, 8, 16, 32, 64}  \* ANCHOR_STRIDE[0]; 64 is not in the table
\* DILATIONS: 2..MaxDilLen entries, all 1 or one stage dilated by 2
DilationLists ==
    { [i \in 1..n |-> IF i = j THEN 2 ELSE 1] : n \in 2..MaxDilLen,
                                              j \in 0..MaxDilLen }
FreezeAts == -1..MaxFreeze

\* NUM_GROUPS, WIDTH_PER_GROUP, STEM_OUT_CHANNELS, RES2_OUT_CHANNELS,
\* BACKBONE_OUT_CHANNELS
ChannelConfigs ==
    { <<1, 64, 64, 256, 1024>>, <<1, 64, 64, 256, 256>>,
      <<32, 8, 64, 256, 2048>>, <<2, 4, 16, 32, 128>> }

\* a kernel-size list per stage, every block with kernel size k, stage s
\* having d entries more (d > 0) or fewer (d < 0) than its block_count
KernelLists(specs, k, s, d) ==
    [ i \in 1..Len(specs) |->
        [ b \in 1..(specs[i].block_count + (IF i = s THEN d ELSE 0)) |-> k ] ]

\* MIDDLE_KERNEL_SIZES: empty, well-formed, or ill-formed in one place
MiddleKernelSizes(body) ==
    LET specs == SpecOf(body) IN
    IF specs = <<>> THEN {<<>>}
    ELSE {<<>>}
         \cup { KernelLists(specs, k, 0, 0) : k \in {1, 3, 5} }
         \cup { KernelLists(specs, 3, s, d) : s \in 1..2, d \in {-1, 1} }
         \cup { KernelLists(specs, 3, 1, -specs[1].block_count),
                SubSeq(KernelLists(specs, 3, 0, 0), 1, Len(specs) - 1) }

\* the default configuration of an architecture
Default(body) ==
    [ CONV_BODY             |-> body,
      STEM_FUNC             |-> "StemWithFixedBatchNorm",
      TRANS_FUNC            |-> "BottleneckWithFixedBatchNorm",
      DONT_LOAD             |-> {},
      USE_FPN               |-> FALSE,
      RESREG                |-> 0,
      ANCHOR_STRIDE         |-> <<16>>,
      DILATIONS             |-> [i \in 1..Len(SpecOf(body)) |-> 1],
      STAGE_WITH_DCN        |-> <<FALSE, FALSE, FALSE, FALSE>>,
      WITH_MODULATED_DCN    |-> FALSE,
      DEFORMABLE_GROUPS     |-> 1,
      MIDDLE_KERNEL_SIZES   |-> <<>>,
      NUM_GROUPS            |-> 1,
      WIDTH_PER_GROUP       |-> 64,
      STEM_OUT_CHANNELS     |-> 64,
      RES2_OUT_CHANNELS     |-> 256,
      BACKBONE_OUT_CHANNELS |-> 1024,
      STRIDE_IN_1X1         |-> TRUE,
      FREEZE_CONV_BODY_AT   |-> 2 ]

\* every architecture in every mode
Modes ==
    { [Default(body) EXCEPT !.USE_FPN = fpn, !.RESREG = rr] :
        body \in ConvBodies, fpn \in BOOLEAN, rr \in ResRegs }

\* the configurations: every architecture in every mode, with the stride
\* and dilation settings, the freeze index, the channel widths or the
\* kernel sizes varied
Configs ==
    { [c EXCEPT !.ANCHOR_STRIDE = <<a>>, !.DILATIONS = d] :
        c \in Modes, a \in AnchorStrides, d \in DilationLists }
    \cup { [c EXCEPT !.FREEZE_CONV_BODY_AT = f] : c \in Modes, f \in FreezeAts }
    \cup { [c EXCEPT !.NUM_GROUPS = ch[1], !.WIDTH_PER_GROUP = ch[2],
                     !.STEM_OUT_CHANNELS = ch[3], !.RES2_OUT_CHANNELS = ch[4],
                     !.BACKBONE_OUT_CHANNELS = ch[5], !.TRANS_FUNC = t,
                     !.DONT_LOAD = dl] :
             c \in Modes, ch \in ChannelConfigs,
             t \in {"BottleneckWithFixedBatchNorm", "BottleneckWithGN"},
             dl \in {{}, {1, 3}} }
    \cup UNION { { [c EXCEPT !.MIDDLE_KERNEL_SIZES = m, !.STRIDE_IN_1X1 = s,
                             !.STAGE_WITH_DCN = dcn] :
                     m \in MiddleKernelSizes(c.CONV_BODY), s \in BOOLEAN,
                     dcn \in { <<FALSE, FALSE, FALSE, FALSE>>,
                               <<FALSE, FALSE, TRUE, TRUE>> } } :
                 c \in Modes }

-----------------------------------------------------------------------------
(* ResNet.__init__, resnet.py 306-397 *)

STEM_MODULES == {"StemWithFixedBatchNorm", "StemWithGN"}
TRANSFORMATION_MODULES == {"BottleneckWithFixedBatchNorm", "BottleneckWithGN"}

\* line 323: the stride schedule is derived from the anchor stride
UsesAnchorTable(c) == ~c.USE_FPN /\ c.RESREG = 0

\* line 365: the stage loop takes the pyramid-style strides
PyramidStrides(c) == c.USE_FPN \/ c.RESREG # 0

\* faulty variant of AnchorStrideTable: the rows of 8 and 16 are exchanged
AnchorStrideTable_Swapped(a) ==
    CASE a = 4  -> <<1, 1, 1>>
      [] a = 8  -> <<1, 2, 2>>
      [] a = 16 -> <<1, 1, 2>>
      [] a = 32 -> <<2, 2, 2>>
      [] OTHER  -> <<>>

\* lines 324-331: the table row of an anchor stride, <<>> when there is none
AnchorStrideTable(a) ==
    CASE a = 4  -> <<1, 1, 1>>
      [] a = 8  -> <<1, 1, 2>>
      [] a = 16 -> <<1, 2, 2>>
      [] a = 32 -> <<2, 2, 2>>
      [] OTHER  -> <<>>

\* line 338: assert(condition, message) asserts a two-element tuple
DilationsAssert(c) ==
    TupleTruth(<< Len(c.DILATIONS) = Len(STAGE_SPECS(c.CONV_BODY)),
                  "ERROR: cfg.MODEL.RESNETS.DILATIONS length does not match" >>)

\* faulty variants of the channel formulas: the exponent is the stage index; the
\* group count is left out
OutChannels_IndexExponent(c, index) == c.RES2_OUT_CHANNELS * 2 ^ index
BottleneckChannels_NoGroups(c, index) == c.WIDTH_PER_GROUP * 2 ^ (index - 1)

\* lines 350-352
BottleneckChannels(c, index) ==
    (c.NUM_GROUPS * c.WIDTH_PER_GROUP) * 2 ^ (index - 1)
OutChannels(c, index) == c.RES2_OUT_CHANNELS * 2 ^ (index - 1)

\* lines 355-358
StageMiddleKs(c, idx, spec) ==
    IF c.MIDDLE_KERNEL_SIZES # <<>> THEN Idx(c.MIDDLE_KERNEL_SIZES, idx)
    ELSE DefaultMiddleKs(spec.block_count)

\* lines 361-363
UseUnfixedBn(c, name) ==
    name \in c.DONT_LOAD /\ c.TRANS_FUNC = "BottleneckWithFixedBatchNorm"

\* faulty variant of PyramidFirstStride: the comparison is index >= 1
PyramidFirstStride_FromOne(index) == (IF index >= 1 THEN 1 ELSE 0) + 1

\* line 366: int(stage_spec.index > 1) + 1
PyramidFirstStride(index) == (IF index > 1 THEN 1 ELSE 0) + 1

\* lines 365-370
FirstStride(c, strd, idx, spec) ==
    IF PyramidStrides(c) THEN PyramidFirstStride(spec.index)
    ELSE Idx(strd, idx)
StageDilation(c, idx) ==
    IF PyramidStrides(c) THEN 1 ELSE Idx(c.DILATIONS, idx)

\* the arguments of the _make_stage call of lines 373-390
StageCall(c, strd, in_ch, idx) ==
    LET spec == Idx(STAGE_SPECS(c.CONV_BODY), idx) IN
    StageArgs(in_ch, BottleneckChannels(c, spec.index),
              OutChannels(c, spec.index), spec.block_count, c.NUM_GROUPS,
              c.STRIDE_IN_1X1, FirstStride(c, strd, idx, spec),
              StageDilation(c, idx), Idx(c.STAGE_WITH_DCN, spec.index - 1),
              StageMiddleKs(c, idx, spec), UseUnfixedBn(c, spec.index))

\* the exception one iteration of the stage loop raises, in the order in
\* which the statements of lines 349-390 are evaluated
StageFailure(c, strd, in_ch, idx) ==
    LET spec == Idx(STAGE_SPECS(c.CONV_BODY), idx) IN
    IF ~InRange(c.STAGE_WITH_DCN, spec.index - 1)
        THEN Raise("IndexError", "STAGE_WITH_DCN")
    ELSE IF c.MIDDLE_KERNEL_SIZES # <<>>
            /\ ~InRange(c.MIDDLE_KERNEL_SIZES, idx)
        THEN Raise("IndexError", "MIDDLE_KERNEL_SIZES")
    ELSE IF Len(StageMiddleKs(c, idx, spec)) # spec.block_count
        THEN Raise("AssertionError", "middle_ks")
    ELSE IF ~PyramidStrides(c) /\ ~InRange(strd, idx)
        THEN Raise("IndexError", "strides")
    ELSE IF ~PyramidStrides(c) /\ ~InRange(c.DILATIONS, idx)
        THEN Raise("IndexError", "DILATIONS")
    ELSE IF ~MakeStage(StageCall(c, strd, in_ch, idx)).ok
        THEN Raise("IndexError", "middle_ks")
    ELSE NoError

\* self.add_module(name, module)
AddModule(ls, name, module) ==
    [ n \in DOMAIN ls \cup {name} |-> IF n = name THEN module ELSE ls[n] ]

Fail(e) ==
    /\ pc' = "failed"
    /\ error' = e

\* backbone.py 124-129: build_backbone looks the builder up
BuildBackbone ==
    /\ pc = "build_backbone"
    /\ IF BACKBONES(cfg.CONV_BODY) = "unregistered"
         THEN Fail(Raise("AssertionError", "BACKBONES"))
         ELSE pc' = "ResNet" /\ error' = error
    /\ UNCHANGED <<cfg, stem, strides, in_channels, stage_idx, layers, stages,
                   return_features, calls, stage_index, model, rpn,
                   roi_heads, x, outputs, fwd_idx, call>>

\* lines 313-319: the registry lookups and the construction of the stem
ConstructStem ==
    /\ pc = "ResNet"
    /\ IF cfg.STEM_FUNC \notin STEM_MODULES
         THEN Fail(Raise("KeyError", "STEM_MODULES")) /\ stem' = stem
       ELSE IF cfg.CONV_BODY \notin StageSpecNames
         THEN Fail(Raise("KeyError", "STAGE_SPECS")) /\ stem' = stem
       ELSE IF cfg.TRANS_FUNC \notin TRANSFORMATION_MODULES
         THEN Fail(Raise("KeyError", "TRANSFORMATION_MODULES")) /\ stem' = stem
       ELSE /\ stem' = [ constructed |-> TRUE,
                         out_channels |-> cfg.STEM_OUT_CHANNELS,
                         requires_grad |-> TRUE ]
            /\ pc' = "strides"
            /\ error' = error
    /\ UNCHANGED <<cfg, strides, in_channels, stage_idx, layers, stages,
                   return_features, calls, stage_index, model, rpn,
                   roi_heads, x, outputs, fwd_idx, call>>

\* lines 321-334: the stride schedule, or exit() on an anchor stride that
\* is not in the table
SetStrides ==
    /\ pc = "strides"
    /\ IF UsesAnchorTable(cfg)
         THEN IF AnchorStrideTable(Idx(cfg.ANCHOR_STRIDE, 0)) # <<>>
                THEN /\ strides' = AnchorStrideTable(Idx(cfg.ANCHOR_STRIDE, 0))
                     /\ pc' = "dilations"
                     /\ error' = error
                ELSE Fail(Raise("exit", "ANCHOR_STRIDE")) /\ strides' = strides
         ELSE /\ strides' = strides
              /\ pc' = "dilations"
              /\ error' = error
    /\ UNCHANGED <<cfg, stem, in_channels, stage_idx, layers, stages,
                   return_features, calls, stage_index, model, rpn,
                   roi_heads, x, outputs, fwd_idx, call>>

\* lines 336-347: the assertion on the length of DILATIONS and the initial
\* values of the stage loop
CheckDilations ==
    /\ pc = "dilations"
    /\ IF DilationsAssert(cfg)
         THEN /\ in_channels' = cfg.STEM_OUT_CHANNELS
              /\ stages' = <<>>
              /\ return_features' = <<>>
              /\ stage_idx' = 0
              /\ pc' = "stages"
              /\ error' = error
         ELSE /\ Fail(Raise("AssertionError", "DILATIONS"))
              /\ UNCHANGED <<in_channels, stages, return_features, stage_idx>>
    /\ UNCHANGED <<cfg, stem, strides, layers, calls, stage_index, model,
                   rpn, roi_heads, x, outputs, fwd_idx, call>>

\* lines 348-394: one iteration of the stage loop; after the last one the
\* constructor goes on to _freeze_backbone (line 397)
BuildStage ==
    /\ pc = "stages"
    /\ LET spec == Idx(STAGE_SPECS(cfg.CONV_BODY), stage_idx)
           name == spec.index
           failure == StageFailure(cfg, strides, in_channels, stage_idx)
           args == StageCall(cfg, strides, in_channels, stage_idx)
       IN IF failure # NoError
            THEN /\ Fail(failure)
                 /\ UNCHANGED <<in_channels, stage_idx, layers, stages,
                                return_features, calls>>
            ELSE /\ calls' = Append(calls, [name |-> name, args |-> args])
                 /\ in_channels' = args.out_channels
                 /\ layers' = AddModule(layers, name,
                                        [blocks |-> MakeStage(args).blocks])
                 /\ stages' = Append(stages, name)
                 /\ return_features' =
                        AddModule(return_features, name, spec.return_features)
                 /\ stage_idx' = stage_idx + 1
                 /\ pc' = IF stage_idx + 1 < Len(STAGE_SPECS(cfg.CONV_BODY))
                            THEN "stages" ELSE "freeze"
                 /\ error' = error
    /\ UNCHANGED <<cfg, stem, strides, stage_index, model, rpn, roi_heads,
                   x, outputs, fwd_idx, call>>

-----------------------------------------------------------------------------
(* ResNet._freeze_backbone, resnet.py 399-408 *)

\* line 400: freeze_at < 0 returns at once
FreezeDisabled(freeze_at) == freeze_at < 0

\* faulty variants of FreezeRange: the stem is skipped; freeze_at itself is included
FreezeRange_SkipStem(freeze_at) == 1..(freeze_at - 1)
FreezeRange_Inclusive(freeze_at) == 0..freeze_at

\* line 402: range(freeze_at)
FreezeRange(freeze_at) == 0..(freeze_at - 1)

\* faulty variant of FreezeModule: only the first block is frozen
FreezeModule_FirstBlock(m) ==
    [ blocks |-> [ b \in DOMAIN m.blocks |->
                     [m.blocks[b] EXCEPT !.requires_grad = (b # 1)] ] ]

\* lines 407-408: every parameter of the module stops requiring gradients
FreezeModule(m) ==
    [ blocks |-> [ b \in DOMAIN m.blocks |->
                     [m.blocks[b] EXCEPT !.requires_grad = FALSE] ] ]

\* one iteration of the loop of _freeze_backbone, or its return; getattr
\* raises AttributeError for a layer that was never added
FreezeBackbone ==
    /\ pc = "freeze"
    /\ LET freeze_at == cfg.FREEZE_CONV_BODY_AT IN
       IF FreezeDisabled(freeze_at) \/ stage_index \notin FreezeRange(freeze_at)
         THEN /\ pc' = "builder"
              /\ UNCHANGED <<error, stem, layers, stage_index>>
       ELSE IF stage_index = 0
         THEN /\ stem' = [stem EXCEPT !.requires_grad = FALSE]
              /\ stage_index' = stage_index + 1
              /\ UNCHANGED <<pc, error, layers>>
       ELSE IF stage_index \in DOMAIN layers
         THEN /\ layers' = [layers EXCEPT
                              ![stage_index] = FreezeModule(layers[stage_index])]
              /\ stage_index' = stage_index + 1
              /\ UNCHANGED <<pc, error, stem>>
       ELSE /\ Fail(Raise("AttributeError", "layer"))
            /\ UNCHANGED <<stem, layers, stage_index>>
    /\ UNCHANGED <<cfg, strides, in_channels, stage_idx, stages,
                   return_features, calls, model, rpn, roi_heads, x, outputs,
                   fwd_idx, call>>

-----------------------------------------------------------------------------
(* The builders of backbone.py, after resnet.ResNet(cfg) has returned *)

\* backbone.py 26-42: the modules put after the body, <<"exit">> for a
\* RESREG value that is none of 4, 2, -2, 1, 0
ResRegModules(rr) ==
    IF rr \in {4, 2, -2, 1} THEN <<"body", "resreg">>
    ELSE IF rr = 0 THEN <<"body">>
    ELSE <<"exit">>

\* faulty variant of ModelOutChannels: the width of the final stage is exposed
ModelOutChannels_FinalStage(c) ==
    c.RES2_OUT_CHANNELS * 2 ^ (Len(STAGE_SPECS(c.CONV_BODY)) - 1)

\* the out_channels attribute every ResNet builder sets (lines 43, 68, 94)
ModelOutChannels(c) == c.BACKBONE_OUT_CHANNELS

\* backbone.py 24-44
BuildResnetBackbone ==
    /\ pc = "builder"
    /\ BACKBONES(cfg.CONV_BODY) = "build_resnet_backbone"
    /\ IF ResRegModules(cfg.RESREG) = <<"exit">>
         THEN Fail(Raise("exit", "RESREG")) /\ model' = model
         ELSE /\ model' = [ modules |-> ResRegModules(cfg.RESREG),
                            fpn_in_channels_list |-> <<>>,
                            out_channels |-> ModelOutChannels(cfg) ]
              /\ pc' = "heads"
              /\ error' = error
    /\ UNCHANGED <<cfg, stem, strides, in_channels, stage_idx, layers, stages,
                   return_features, calls, stage_index, rpn, roi_heads, x,
                   outputs, fwd_idx, call>>

\* backbone.py 50-69
BuildResnetFpnBackbone ==
    /\ pc = "builder"
    /\ BACKBONES(cfg.CONV_BODY) = "build_resnet_fpn_backbone"
    /\ model' = [ modules |-> <<"body", "fpn">>,
                  fpn_in_channels_list |->
                      << cfg.RES2_OUT_CHANNELS, cfg.RES2_OUT_CHANNELS * 2,
                         cfg.RES2_OUT_CHANNELS * 4, cfg.RES2_OUT_CHANNELS * 8 >>,
                  out_channels |-> ModelOutChannels(cfg) ]
    /\ pc' = "heads"
    /\ UNCHANGED <<cfg, error, stem, strides, in_channels, stage_idx, layers,
                   stages, return_features, calls, stage_index, rpn,
                   roi_heads, x, outputs, fwd_idx, call>>

\* backbone.py 74-95
BuildResnetFpnP3P7Backbone ==
    /\ pc = "builder"
    /\ BACKBONES(cfg.CONV_BODY) = "build_resnet_fpn_p3p7_backbone"
    /\ model' = [ modules |-> <<"body", "fpn">>,
                  fpn_in_channels_list |->
                      << 0, cfg.RES2_OUT_CHANNELS * 2,
                         cfg.RES2_OUT_CHANNELS * 4, cfg.RES2_OUT_CHANNELS * 8 >>,
                  out_channels |-> ModelOutChannels(cfg) ]
    /\ pc' = "heads"
    /\ UNCHANGED <<cfg, error, stem, strides, in_channels, stage_idx, layers,
                   stages, return_features, calls, stage_index, rpn,
                   roi_heads, x, outputs, fwd_idx, call>>

\* generalized_rcnn.py 30-31: both heads are built on backbone.out_channels
BuildHeads ==
    /\ pc = "heads"
    /\ rpn' = [built |-> TRUE, in_channels |-> model.out_channels]
    /\ roi_heads' = [built |-> TRUE, in_channels |-> model.out_channels]
    /\ pc' = "ready"
    /\ UNCHANGED <<cfg, error, stem, strides, in_channels, stage_idx, layers,
                   stages, return_features, calls, stage_index, model, x,
                   outputs, fwd_idx, call>>

-----------------------------------------------------------------------------
(* ResNet.forward, resnet.py 410-420 *)

\* the tensor a module returns for the tensor t
Apply(name, t) == Append(t, name)

\* faulty variant of Export: the return_features flag is ignored
Export_Always(rf, name, outs, t) == Append(outs, t)

\* lines 418-419
Export(rf, name, outs, t) == IF rf[name] THEN Append(outs, t) ELSE outs

\* lines 411-413
ForwardStem ==
    /\ pc = "ready"
    /\ outputs' = <<>>
    /\ x' = Apply(0, <<>>)
    /\ fwd_idx' = 0
    /\ pc' = "forward"
    /\ UNCHANGED <<cfg, error, stem, strides, in_channels, stage_idx, layers,
                   stages, return_features, calls, stage_index, model, rpn,
                   roi_heads, call>>

\* lines 415-419: one iteration of the loop over self.stages
ForwardStage ==
    /\ pc = "forward"
    /\ fwd_idx < Len(stages)
    /\ LET stage_name == Idx(stages, fwd_idx) IN
         /\ x' = Apply(stage_name, x)
         /\ outputs' = Export(return_features, stage_name, outputs, x')
    /\ fwd_idx' = fwd_idx + 1
    /\ UNCHANGED <<cfg, pc, error, stem, strides, in_channels, stage_idx,
                   layers, stages, return_features, calls, stage_index, model,
                   rpn, roi_heads, call>>

\* line 420
ForwardReturn ==
    /\ pc = "forward"
    /\ fwd_idx = Len(stages)
    /\ pc' = "done"
    /\ UNCHANGED <<cfg, error, stem, strides, in_channels, stage_idx, layers,
                   stages, return_features, calls, stage_index, model, rpn,
                   roi_heads, x, outputs, fwd_idx, call>>

-----------------------------------------------------------------------------
(* The construction of a detector and one forward pass of its body *)

NoCall == [state |-> "none", args |-> <<>>, blocks |-> <<>>]

Idle ==
    /\ error = NoError
    /\ stem = [constructed |-> FALSE, out_channels |-> 0,
               requires_grad |-> TRUE]
    /\ strides = <<>>
    /\ in_channels = 0
    /\ stage_idx = 0
    /\ layers = <<>>
    /\ stages = <<>>
    /\ return_features = <<>>
    /\ calls = <<>>
    /\ stage_index = 0
    /\ model = [modules |-> <<>>, fpn_in_channels_list |-> <<>>,
                out_channels |-> 0]
    /\ rpn = [built |-> FALSE, in_channels |-> 0]
    /\ roi_heads = [built |-> FALSE, in_channels |-> 0]
    /\ x = <<>>
    /\ outputs = <<>>
    /\ fwd_idx = 0

Init ==
    /\ cfg \in Configs
    /\ pc = "build_backbone"
    /\ call = NoCall
    /\ Idle

Next ==
    \/ BuildBackbone
    \/ ConstructStem
    \/ SetStrides
    \/ CheckDilations
    \/ BuildStage
    \/ FreezeBackbone
    \/ BuildResnetBackbone
    \/ BuildResnetFpnBackbone
    \/ BuildResnetFpnP3P7Backbone
    \/ BuildHeads
    \/ ForwardStem
    \/ ForwardStage
    \/ ForwardReturn

Spec == Init /\ [][Next]_vars

-----------------------------------------------------------------------------
(* Direct calls of the stage builder *)

\* middle_ks of a direct call: up to MaxBlockCount + 1 kernel sizes
DirectMiddleKs == UNION { [1..n -> {1, 3, 5}] : n \in 0..(MaxBlockCount + 1) }

DirectArgs ==
    { StageArgs(i, 64, 256, b, 1, s1, fs, d, FALSE, m, FALSE) :
        i \in {64, 256}, b \in 0..MaxBlockCount, s1 \in BOOLEAN,
        fs \in {1, 2}, d \in {1, 2}, m \in DirectMiddleKs }

InitStage ==
    /\ cfg = Default("R-50-C4")
    /\ pc = "idle"
    /\ call \in { [state |-> "pending", args |-> a, blocks |-> <<>>] :
                    a \in DirectArgs }
    /\ Idle

\* resnet.py 483-520: the call returns a stage or raises IndexError
CallMakeStage ==
    /\ call.state = "pending"
    /\ call' = IF MakeStage(call.args).ok
                 THEN [call EXCEPT !.state = "returned",
                                   !.blocks = MakeStage(call.args).blocks]
                 ELSE [call EXCEPT !.state = "IndexError"]
    /\ UNCHANGED <<cfg, pc, error, stem, strides, in_channels, stage_idx,
                   layers, stages, return_features, calls, stage_index, model,
                   rpn, roi_heads, x, outputs, fwd_idx>>

NextStage == CallMakeStage

SpecStage == InitStage /\ [][NextStage]_vars

-----------------------------------------------------------------------------
(* Vocabulary of the properties *)

\* the stage specs of the configured architecture and the index K of its
\* final stage
Specs == SpecOf(cfg.CONV_BODY)
K == Len(Specs)

\* ResNet.__init__ has returned
Constructed ==
    \/ pc \in {"builder", "heads", "ready", "forward", "done"}
    \/ pc = "failed" /\ error.at = "RESREG"

\* the builder has returned the model
Built == pc \in {"heads", "ready", "forward", "done"}

AllTrainable(m) == \A b \in DOMAIN m.blocks : m.blocks[b].requires_grad
AllFrozen(m) == \A b \in DOMAIN m.blocks : ~m.blocks[b].requires_grad

-----------------------------------------------------------------------------
(* Freezing *)

\* C1 as stated: after construction with FREEZE_CONV_BODY_AT = f,
\* 0 <= f <= K+1, the stem and every stage i < f are frozen and every stage
\* i >= f is trainable.
C1_FreezeStemAlways ==
    (Constructed /\ cfg.FREEZE_CONV_BODY_AT \in 0..(K + 1)) =>
        /\ ~stem.requires_grad
        /\ \A i \in DOMAIN layers :
             IF i < cfg.FREEZE_CONV_BODY_AT THEN AllFrozen(layers[i])
             ELSE AllTrainable(layers[i])

\* C1 amended: after construction with FREEZE_CONV_BODY_AT = f, for
\* 1 <= f <= K+1 the stem and every stage i < f are frozen and every stage
\* i >= f is trainable; for f = 0 the stem is trainable as well.
C1_Freeze ==
    (Constructed /\ cfg.FREEZE_CONV_BODY_AT \in 0..(K + 1)) =>
        /\ DOMAIN layers = 1..K
        /\ stem.requires_grad <=> (cfg.FREEZE_CONV_BODY_AT = 0)
        /\ \A i \in DOMAIN layers :
             IF i < cfg.FREEZE_CONV_BODY_AT THEN AllFrozen(layers[i])
             ELSE AllTrainable(layers[i])

C1_Witness ==
    /\ pc = "done"
    /\ cfg.FREEZE_CONV_BODY_AT \in 1..(K + 1)
    /\ ~stem.requires_grad
    /\ \E i \in DOMAIN layers : AllFrozen(layers[i])
    /\ \E i \in DOMAIN layers : AllTrainable(layers[i])

\* C2: construction with FREEZE_CONV_BODY_AT = -1 or 0 leaves every
\* parameter of the stem and of every stage trainable.
C2_NothingFrozen ==
    (Constructed /\ cfg.FREEZE_CONV_BODY_AT \in {-1, 0}) =>
        /\ stem.constructed /\ stem.requires_grad
        /\ DOMAIN layers = 1..K
        /\ \A i \in DOMAIN layers : AllTrainable(layers[i])

C2_Witness ==
    /\ pc = "done"
    /\ cfg.FREEZE_CONV_BODY_AT = 0
    /\ stem.requires_grad
    /\ DOMAIN layers = 1..4

-----------------------------------------------------------------------------
(* The channel count the backbone exposes *)

-----------------------------------------------------------------------------
(* The forward pass *)

StageNames == [i \in 1..K |-> Specs[i].index]

\* the tensor after the stem and the first n stages
TensorAfter(n) == <<0>> \o SubSeq(StageNames, 1, n)

RECURSIVE ExportedUpTo(_)
\* the outputs of the exported stages among the first n, in stage order
ExportedUpTo(n) ==
    IF n = 0 THEN <<>>
    ELSE IF Specs[n].return_features
        THEN Append(ExportedUpTo(n - 1), TensorAfter(n))
    ELSE ExportedUpTo(n - 1)

\* C4: forward runs the stem first and then every stage exactly once in
\* increasing index order, each on the previous output; the returned list
\* holds exactly the outputs of the stages with return_features, in
\* increasing index order.
C4_ForwardOrder ==
    pc \in {"forward", "done"} =>
        /\ x = TensorAfter(fwd_idx)
        /\ outputs = ExportedUpTo(fwd_idx)
        /\ pc = "done" =>
             /\ x = [i \in 1..(K + 1) |-> i - 1]
             /\ Len(outputs) =
                  Cardinality({i \in 1..K : Specs[i].return_features})
             /\ \A j \in 1..Len(outputs) :
                  /\ Specs[outputs[j][Len(outputs[j])]].return_features
                  /\ j > 1 => Len(outputs[j - 1]) < Len(outputs[j])

C4_Witness ==
    /\ pc = "done"
    /\ Len(x) = 5
    /\ outputs = << <<0, 1, 2, 3, 4>> >>

-----------------------------------------------------------------------------
(* Strides and dilations of the stages *)

\* the table of the anchor strides
TableRow(a) ==
    CASE a = 4  -> <<1, 1, 1>>
      [] a = 8  -> <<1, 1, 2>>
      [] a = 16 -> <<1, 2, 2>>
      [] a = 32 -> <<2, 2, 2>>

NonPyramid == ~cfg.USE_FPN /\ cfg.RESREG = 0

\* the rest of the configuration lets the construction go through
KernelSizesWellFormed ==
    \/ cfg.MIDDLE_KERNEL_SIZES = <<>>
    \/ /\ Len(cfg.MIDDLE_KERNEL_SIZES) >= K
       /\ \A i \in 1..K :
            Len(cfg.MIDDLE_KERNEL_SIZES[i]) = Specs[i].block_count
OtherwiseValid ==
    /\ cfg.CONV_BODY \in StageSpecNames
    /\ KernelSizesWellFormed
    /\ Len(cfg.DILATIONS) >= K
    /\ cfg.FREEZE_CONV_BODY_AT <= K + 1

StagesFollowTable ==
    \A i \in 1..Len(calls) :
        /\ calls[i].args.first_stride = TableRow(cfg.ANCHOR_STRIDE[1])[i]
        /\ calls[i].args.dilation = cfg.DILATIONS[i]

\* C5 as stated: in non-pyramid mode, for every architecture of the
\* catalogue and every anchor stride of the table, construction completes
\* and stage i is built with the stride of the table row and DILATIONS[i].
C5_AnchorTableEveryArchitecture ==
    (NonPyramid /\ cfg.ANCHOR_STRIDE[1] \in {4, 8, 16, 32} /\ OtherwiseValid) =>
        /\ error = NoError
        /\ StagesFollowTable

\* C5 amended: the same for the architectures of at most three stages.
C5_AnchorTable ==
    (NonPyramid /\ cfg.ANCHOR_STRIDE[1] \in {4, 8, 16, 32} /\ OtherwiseValid
     /\ K <= 3) =>
        /\ error = NoError
        /\ StagesFollowTable

C5_Witness ==
    /\ pc = "done"
    /\ NonPyramid
    /\ cfg.ANCHOR_STRIDE = <<16>>
    /\ cfg.DILATIONS = <<1, 2, 1>>
    /\ Len(calls) = 3
    /\ calls[2].args.first_stride = 2 /\ calls[2].args.dilation = 2

\* C6: with USE_FPN or RESREG # 0 every stage is built with first_stride 1
\* (index 1) or 2 (index > 1) and dilation 1, whatever ANCHOR_STRIDE and
\* DILATIONS are, and the anchor-stride table is never consulted.
C6_PyramidStrides ==
    (cfg.USE_FPN \/ cfg.RESREG # 0) =>
        /\ \A i \in 1..Len(calls) :
             /\ calls[i].args.first_stride = IF calls[i].name = 1 THEN 1 ELSE 2
             /\ calls[i].args.dilation = 1
             /\ \A b \in DOMAIN layers[calls[i].name].blocks :
                  layers[calls[i].name].blocks[b].dilation = 1
        /\ strides = <<>>
        /\ error.at # "ANCHOR_STRIDE"

C6_Witness ==
    /\ pc = "done"
    /\ ~cfg.USE_FPN /\ cfg.RESREG = 2
    /\ cfg.ANCHOR_STRIDE = <<64>>
    /\ cfg.DILATIONS = <<1, 1, 2, 1>>
    /\ Len(calls) = 4

-----------------------------------------------------------------------------
(* Channel widths of the stages *)

\* C7: stage i is built with bottleneck_channels NUM_GROUPS x
\* WIDTH_PER_GROUP x 2^(i-1) and out_channels RES2_OUT_CHANNELS x 2^(i-1);
\* the first stage's in_channels is STEM_OUT_CHANNELS and every later
\* stage's in_channels is the out_channels of the stage built before it.
C7_StageChannels ==
    \A i \in 1..Len(calls) :
        LET a == calls[i].args
            index == calls[i].name
        IN /\ a.bottleneck_channels =
                  cfg.NUM_GROUPS * cfg.WIDTH_PER_GROUP * 2 ^ (index - 1)
           /\ a.out_channels = cfg.RES2_OUT_CHANNELS * 2 ^ (index - 1)
           /\ a.in_channels = IF i = 1 THEN cfg.STEM_OUT_CHANNELS
                              ELSE calls[i - 1].args.out_channels
           /\ index = Specs[i].index

C7_Witness ==
    /\ pc = "done"
    /\ cfg.NUM_GROUPS = 32 /\ cfg.WIDTH_PER_GROUP = 8
    /\ Len(calls) = 4
    /\ calls[4].args.bottleneck_channels = 2048
    /\ calls[4].args.in_channels = 1024

-----------------------------------------------------------------------------
(* Validation of the configuration lists *)

\* C8: a DILATIONS list shorter than the stage-spec sequence is rejected
\* before any module, stem or stage, has been constructed, in pyramid and in
\* non-pyramid mode.
C8_ShortDilationsRejected ==
    (cfg.CONV_BODY \in StageSpecNames /\ Len(cfg.DILATIONS) < K) =>
        /\ ~stem.constructed
        /\ calls = <<>>
        /\ ~Constructed

\* C9: a stage built with a non-empty kernel-size list whose length differs
\* from block_count fails instead of returning a stage; with an empty list
\* every block gets kernel size 3.
C9_KernelListLengthChecked ==
    (call.state # "pending" /\ call.args.block_count >= 1) =>
        /\ (call.args.middle_ks # <<>>
            /\ Len(call.args.middle_ks) # call.args.block_count)
               => call.state # "returned"
        /\ call.args.middle_ks = <<>> =>
               /\ call.state = "returned"
               /\ Len(call.blocks) = call.args.block_count
               /\ \A b \in 1..Len(call.blocks) : call.blocks[b].middle_k = 3

-----------------------------------------------------------------------------
(* The blocks of a stage *)

\* C10: a stage returned by _make_stage with block_count = B >= 1 has
\* exactly B blocks; block 0 has stride first_stride and the caller's
\* in_channels, blocks 1..B-1 have stride 1 and in_channels = out_channels,
\* and all blocks share bottleneck_channels, out_channels and dilation.
C10_StageBlocks ==
    (call.state = "returned" /\ call.args.block_count >= 1) =>
        LET a == call.args
            blocks == call.blocks
        IN /\ Len(blocks) = a.block_count
           /\ blocks[1].stride = a.first_stride
           /\ blocks[1].in_channels = a.in_channels
           /\ \A b \in 2..Len(blocks) :
                /\ blocks[b].stride = 1
                /\ blocks[b].in_channels = a.out_channels
           /\ \A b \in 1..Len(blocks) :
                /\ blocks[b].bottleneck_channels = a.bottleneck_channels
                /\ blocks[b].out_channels = a.out_channels
                /\ blocks[b].dilation = a.dilation

C10_Witness ==
    /\ call.state = "returned"
    /\ call.args.block_count = 3
    /\ call.args.first_stride = 2
    /\ call.args.in_channels = 64
    /\ call.args.dilation = 2
    /\ call.blocks[1].stride = 2 /\ call.blocks[3].stride = 1
    /\ call.blocks[1].downsample /\ ~call.blocks[2].downsample

-----------------------------------------------------------------------------
(* Tensor shapes: Bottleneck.forward, resnet.py 630-650 *)

Shape(batch, channels, height, width) == [batch |-> batch, channels |-> channels, height |-> height, width |-> width]

\* output length of a convolution or pooling window of size k, stride s,
\* padding p and dilation d on an input of length n
WindowOut(n, k, s, p, d) == ((n + 2 * p - d * (k - 1) - 1) \div s) + 1

\* a Conv2d of in_ch input channels applied to the tensor t; ok is false
\* when the channels do not fit or no output position is left
ConvForward(t, in_ch, out_ch, k, s, p, d) ==
    LET h == WindowOut(t.height, k, s, p, d)
        w == WindowOut(t.width, k, s, p, d)
    IN [ ok |-> t.channels = in_ch /\ h >= 1 /\ w >= 1,
         shape |-> Shape(t.batch, out_ch, h, w) ]

\* lines 633-642: conv1, conv2, conv3 (the norms and relus keep the shape)
MainPath(b, t) ==
    LET c1 == ConvForward(t, b.in_channels, b.bottleneck_channels, 1, b.stride_1x1, 0, 1)
        c2 == ConvForward(c1.shape, b.bottleneck_channels, b.bottleneck_channels, b.middle_k, b.stride_3x3, b.padding, b.dilation)
        c3 == ConvForward(c2.shape, b.bottleneck_channels, b.out_channels, 1, 1, 0, 1)
    IN [ ok |-> c1.ok /\ c2.ok /\ c3.ok, shape |-> c3.shape ]

\* lines 631 and 644-645: the identity, or the 1x1 projection of lines
\* 541-549 at the block's stride
ShortcutPath(b, t) ==
    IF b.downsample THEN ConvForward(t, b.in_channels, b.out_channels, 1, b.stride, 0, 1)
    ELSE [ok |-> TRUE, shape |-> t]

\* Bottleneck.forward for a non-deformable block: line 647 adds the two
\* paths, which must have the same shape
BottleneckForward(b, t) ==
    LET main == MainPath(b, t)
        identity == ShortcutPath(b, t)
    IN [ ok       |-> main.ok /\ identity.ok /\ main.shape = identity.shape,
         shape    |-> main.shape,
         main     |-> main.shape,
         shortcut |-> identity.shape ]

\* the blocks a forward pass is tried on: stride 1..3, dilation 1..2, odd
\* kernel sizes, with (64 -> 256) and without (256 -> 256) projection
BlockInputs ==
    { [ block |-> Bottleneck(i, 64, 256, 1, s1, s, d, FALSE, k, FALSE),
        input |-> Shape(2, i, n, n) ] :
        i \in {64, 256}, s1 \in BOOLEAN, s \in 1..3, d \in 1..2,
        k \in {1, 3, 5}, n \in 1..MaxSize }

InitBlock ==
    /\ cfg = Default("R-50-C4")
    /\ pc = "idle"
    /\ call \in { [ state |-> "pending", args |-> a,
                    main |-> a.input, shortcut |-> a.input ] :
                  a \in BlockInputs }
    /\ Idle

\* one forward pass of the block; a shape mismatch raises RuntimeError
CallBottleneckForward ==
    /\ call.state = "pending"
    /\ LET r == BottleneckForward(call.args.block, call.args.input) IN
       call' = [call EXCEPT !.state = IF r.ok THEN "returned" ELSE "RuntimeError",
                            !.main = r.main,
                            !.shortcut = r.shortcut]
    /\ UNCHANGED <<cfg, pc, error, stem, strides, in_channels, stage_idx,
                   layers, stages, return_features, calls, stage_index, model,
                   rpn, roi_heads, x, outputs, fwd_idx>>

NextBlock == CallBottleneckForward

SpecBlock == InitBlock /\ [][NextBlock]_vars

CeilDiv(n, s) == (n + s - 1) \div s

\* C11: a non-deformable block with stride s, dilation d and odd kernel size
\* k maps an input of spatial size n to a main-path output of size
\* ceil(n/s), equal to the size of the shortcut path, so that the addition
\* is shape-consistent.  Stated for the blocks whose shortcut follows the
\* stride: a projection at stride s, or the identity at stride 1.
C11_BlockOutputSize ==
    (call.state # "pending"
     /\ (call.args.block.downsample \/ call.args.block.stride = 1)) =>
        /\ call.state = "returned"
        /\ call.main.height = CeilDiv(call.args.input.height, call.args.block.stride)
        /\ call.main.width = CeilDiv(call.args.input.width, call.args.block.stride)
        /\ call.main = call.shortcut

\* what the code guarantees: the sizes are as stated when the middle
\* kernel size is 1 or 3
C11_SmallKernelOutputSize ==
    (call.state # "pending"
     /\ (call.args.block.downsample \/ call.args.block.stride = 1)
     /\ call.args.block.middle_k \in {1, 3}) =>
        /\ call.state = "returned"
        /\ call.main.height = CeilDiv(call.args.input.height, call.args.block.stride)
        /\ call.main = call.shortcut

-----------------------------------------------------------------------------
(* Tensor shapes: the stem and ResNet.forward *)

\* faulty variant of StemForward: the max pooling is left out
StemForward_NoPool(s, t) == ConvForward(t, 3, s.out_channels, 7, 2, 3, 1)

\* BaseStem.forward, lines 667-672: the 7x7 convolution of lines 659-661
\* (3 input channels, stride 2, padding 3), then max_pool2d with kernel 3,
\* stride 2 and padding 1
StemForward(s, t) ==
    LET c == ConvForward(t, 3, s.out_channels, 7, 2, 3, 1)
        h == WindowOut(c.shape.height, 3, 2, 1, 1)
        w == WindowOut(c.shape.width, 3, 2, 1, 1)
    IN [ ok |-> c.ok /\ h >= 1 /\ w >= 1,
         shape |-> Shape(c.shape.batch, c.shape.channels, h, w) ]

RECURSIVE StageForward(_, _, _)
\* the nn.Sequential of line 520: the blocks from the i-th on, applied in
\* order to the result r of the blocks before them
StageForward(blocks, i, r) ==
    IF i > Len(blocks) THEN r
    ELSE LET f == BottleneckForward(blocks[i], r.shape)
         IN StageForward(blocks, i + 1,
                         [ok |-> r.ok /\ f.ok, shape |-> f.shape])

\* lines 413 and 416: self.stem(x) or getattr(self, stage_name)(x)
ModuleForward(name, r) ==
    IF name = 0
      THEN [ok |-> r.ok /\ StemForward(stem, r.shape).ok,
            shape |-> StemForward(stem, r.shape).shape]
      ELSE StageForward(layers[name].blocks, 1, r)

RECURSIVE TensorShape(_, _, _)
\* the shape of the tensor t of ResNet.forward: the modules from the i-th
\* on that were applied to it, applied to the result r of those before
TensorShape(t, i, r) ==
    IF i > Len(t) THEN r
    ELSE TensorShape(t, i + 1, ModuleForward(t[i], r))

\* a batch of two 224x224 images with 3 channels
ImageBatch == Shape(2, 3, 224, 224)

\* the configured stages are all non-deformable
NonDeformable == \A i \in 1..K : ~Idx(cfg.STAGE_WITH_DCN, Specs[i].index - 1)

\* the kernel sizes are the default: not configured, or 3 for every block
DefaultKernelSizes ==
    \/ cfg.MIDDLE_KERNEL_SIZES = <<>>
    \/ cfg.MIDDLE_KERNEL_SIZES = KernelLists(Specs, 3, 0, 0)

\* C12: for "R-50-C4" with NUM_GROUPS = 1, WIDTH_PER_GROUP = 64,
\* STEM_OUT_CHANNELS = 64, RES2_OUT_CHANNELS = 256 and kernel size 3 (the
\* stages non-deformable), under pyramid-style striding or under the anchor
\* table with anchor stride 16, the forward pass on a batch of two 224x224
\* images returns exactly one feature map, of shape [2, 1024, 14, 14].
C12_EndToEndShape ==
    ( /\ pc = "done"
      /\ cfg.CONV_BODY = "R-50-C4"
      /\ cfg.NUM_GROUPS = 1 /\ cfg.WIDTH_PER_GROUP = 64
      /\ cfg.STEM_OUT_CHANNELS = 64 /\ cfg.RES2_OUT_CHANNELS = 256
      /\ DefaultKernelSizes /\ NonDeformable
      /\ (PyramidStrides(cfg) \/ Idx(cfg.ANCHOR_STRIDE, 0) = 16) ) =>
        /\ Len(outputs) = 1
        /\ TensorShape(outputs[1], 1, [ok |-> TRUE, shape |-> ImageBatch])
             = [ok |-> TRUE, shape |-> Shape(2, 1024, 14, 14)]

C12_Witness ==
    /\ pc = "done"
    /\ cfg.CONV_BODY = "R-50-C4"
    /\ UsesAnchorTable(cfg) /\ Idx(cfg.ANCHOR_STRIDE, 0) = 16
    /\ cfg.DILATIONS = <<1, 1, 2>>
    /\ cfg.NUM_GROUPS = 1 /\ cfg.RES2_OUT_CHANNELS = 256
    /\ Len(outputs) = 1
    /\ outputs[1] = <<0, 1, 2, 3>>
    /\ TensorShape(outputs[1], 1, [ok |-> TRUE, shape |-> ImageBatch]).shape
         = Shape(2, 1024, 14, 14)

-----------------------------------------------------------------------------
(* The multi-branch stage: DDPP_Stem and DDPP_Stage, resnet.py 204-299, and
   build_resnet_stem / build_resnet_stage, backbone.py 134-144 *)

\* the classes and functions resnet.py defines at module level; the classes
\* ResNet_Stem and ResNet_Stage of lines 108-198 are commented out
ResnetNames ==
    { "StageSpec", "DDPP_Stem", "DDPP_Stage", "ResNet", "ResNetHead",
      "_make_stage", "Bottleneck", "BaseStem", "BottleneckWithFixedBatchNorm",
      "StemWithFixedBatchNorm", "BottleneckWithGN", "StemWithGN" }

\* cfg.MODEL.EWADAPTIVE.C2 / C3 / C4: a list of (first_stride, dilation)
EwaSpecs ==
    UNION { [1..n -> { <<s, d>> : s \in {1, 2}, d \in {1, 2} }] :
              n \in 0..MaxBranches }

\* lines 241-283: the _make_stage call of branch b of the stage
BranchCall(c, stage, in_ch, ewa_spec, branch_idx) ==
    LET stage_spec == Idx(STAGE_SPECS(c.CONV_BODY), stage - 2) IN
    StageArgs(in_ch, BottleneckChannels(c, stage_spec.index),
              OutChannels(c, stage_spec.index), stage_spec.block_count,
              c.NUM_GROUPS, c.STRIDE_IN_1X1,
              Idx(Idx(ewa_spec, branch_idx), 0),
              Idx(Idx(ewa_spec, branch_idx), 1),
              Idx(c.STAGE_WITH_DCN, stage_spec.index - 1), <<>>, FALSE)

\* lines 231-288: the constructor of the stage class.  Its first statement
\* is super(ResNet_Stage, self).__init__(), which looks the global name
\* ResNet_Stage up
StageInit(c, stage, in_ch, ewa_spec) ==
    IF "ResNet_Stage" \notin ResnetNames
      THEN [state |-> "NameError", branches |-> <<>>]
      ELSE [state |-> "returned",
            branches |-> [ b \in 1..Len(ewa_spec) |->
                             BranchCall(c, stage, in_ch, ewa_spec, b - 1) ]]

\* lines 208-220: the constructor of the stem class, whose first statement
\* is super(DDPPStem, self).__init__()
StemInit(c) ==
    IF "DDPPStem" \notin ResnetNames
      THEN [state |-> "NameError", branches |-> <<>>]
      ELSE [state |-> "returned", branches |-> <<>>]

BranchCalls ==
    { [fn |-> f, stage |-> 2, in_channels |-> 64, ewa_spec |-> <<>>] :
        f \in {"build_resnet_stem", "DDPP_Stem"} }
    \cup { [fn |-> f, stage |-> s, in_channels |-> 64, ewa_spec |-> e] :
             f \in {"build_resnet_stage", "DDPP_Stage"}, s \in 2..4,
             e \in EwaSpecs }

InitBranch ==
    /\ cfg = Default("R-50-C5")
    /\ pc = "idle"
    /\ call \in { [state |-> "pending", args |-> a, branches |-> <<>>] :
                    a \in BranchCalls }
    /\ Idle

Returns(r) ==
    /\ call' = [call EXCEPT !.state = r.state, !.branches = r.branches]
    /\ UNCHANGED <<cfg, pc, error, stem, strides, in_channels, stage_idx,
                   layers, stages, return_features, calls, stage_index, model,
                   rpn, roi_heads, x, outputs, fwd_idx>>

\* backbone.py 134-137: resnet.ResNet_Stem is an attribute lookup on the
\* module resnet
CallBuildResnetStem ==
    /\ call.state = "pending"
    /\ call.args.fn = "build_resnet_stem"
    /\ Returns(IF "ResNet_Stem" \notin ResnetNames
                 THEN [state |-> "AttributeError", branches |-> <<>>]
                 ELSE [state |-> "returned", branches |-> <<>>])

\* backbone.py 140-144: resnet.ResNet_Stage(cfg, stage, in_channels), an
\* attribute lookup on the module resnet and then the constructor
CallBuildResnetStage ==
    /\ call.state = "pending"
    /\ call.args.fn = "build_resnet_stage"
    /\ Returns(IF "ResNet_Stage" \notin ResnetNames
                 THEN [state |-> "AttributeError", branches |-> <<>>]
                 ELSE StageInit(cfg, call.args.stage, call.args.in_channels,
                                call.args.ewa_spec))

\* resnet.py 208-220: DDPP_Stem(cfg, norm_func)
ConstructDDPPStem ==
    /\ call.state = "pending"
    /\ call.args.fn = "DDPP_Stem"
    /\ Returns(StemInit(cfg))

\* resnet.py 231-288: DDPP_Stage(cfg, stage, in_channels)
ConstructDDPPStage ==
    /\ call.state = "pending"
    /\ call.args.fn = "DDPP_Stage"
    /\ Returns(StageInit(cfg, call.args.stage, call.args.in_channels,
                         call.args.ewa_spec))

NextBranch ==
    \/ CallBuildResnetStem
    \/ CallBuildResnetStage
    \/ ConstructDDPPStem
    \/ ConstructDDPPStage

SpecBranch == InitBranch /\ [][NextBranch]_vars

\* C13: building a multi-branch stage (build_resnet_stage or the stage
\* class) for a stage number in 2..4 whose branch specification list has N
\* entries succeeds and yields exactly N branches, branch b with first_stride
\* and dilation taken from entry b; build_resnet_stem returns a stem module.
C13_MultiBranchStageBuilt ==
    ( /\ call.state # "pending"
      /\ \/ call.args.fn = "build_resnet_stem"
         \/ /\ call.args.fn \in {"build_resnet_stage", "DDPP_Stage"}
            /\ Len(call.args.ewa_spec) >= 1 ) =>
        /\ call.state = "returned"
        /\ call.args.fn \in {"build_resnet_stage", "DDPP_Stage"} =>
             /\ Len(call.branches) = Len(call.args.ewa_spec)
             /\ \A b \in 1..Len(call.branches) :
                  /\ call.branches[b].first_stride = call.args.ewa_spec[b][1]
                  /\ call.branches[b].dilation = call.args.ewa_spec[b][2]

-----------------------------------------------------------------------------
(* ResNetHead.__init__, resnet.py 424-475 *)

\* an optional integer: None is <<>> and the integer v is <<v>>
None == <<>>
Some(v) == <<v>>
\* `not stride` is true for None and for 0
Falsy(stride) == stride = None \/ stride[1] = 0

\* the argument record of a ResNetHead construction
HeadArgs(block_module, head_stages, num_groups, width_per_group, stride_in_1x1, stride_init, res2_out_channels, dilation, with_dcn) ==
    [ block_module      |-> block_module,
      stages            |-> head_stages,
      num_groups        |-> num_groups,
      width_per_group   |-> width_per_group,
      stride_in_1x1     |-> stride_in_1x1,
      stride_init       |-> stride_init,
      res2_out_channels |-> res2_out_channels,
      dilation          |-> dilation,
      with_dcn          |-> with_dcn ]

\* lines 439-443: the channel counts, computed once from stages[0]
HeadChannels(h) ==
    LET stage2_relative_factor == 2 ^ (Idx(h.stages, 0).index - 1)
        stage2_bottleneck_channels == h.num_groups * h.width_per_group
        out_channels == h.res2_out_channels * stage2_relative_factor
    IN [ out_channels        |-> out_channels,
         in_channels         |-> out_channels \div 2,
         bottleneck_channels |->
             stage2_bottleneck_channels * stage2_relative_factor ]

\* line 457: int(stage.index > 1) + 1
HeadParityStride(index) == (IF index > 1 THEN 1 ELSE 0) + 1

\* lines 456-457: the stride of the stage
HeadStride(stride, stage) ==
    IF Falsy(stride) THEN Some(HeadParityStride(stage.index)) ELSE stride

\* faulty variant of HeadStep: `stride = None` is forgotten
HeadStep_KeepStride(c, h, ch, stage, st) ==
    LET stride == HeadStride(st.stride, stage) IN
    [ calls  |-> Append(st.calls,
                   [ name |-> stage.index,
                     args |-> StageArgs(ch.in_channels, ch.bottleneck_channels,
                                        ch.out_channels, stage.block_count,
                                        h.num_groups, h.stride_in_1x1,
                                        stride[1], h.dilation, h.with_dcn,
                                        <<>>, UseUnfixedBn(c, stage.index)) ]),
      stride |-> stride,
      stages |-> Append(st.stages, stage.index) ]

\* one iteration of the loop of lines 449-474; ch holds the channel counts
\* of lines 439-443 and st the running values of the loop
HeadStep(c, h, ch, stage, st) ==
    LET stride == HeadStride(st.stride, stage) IN
    [ calls  |-> Append(st.calls,
                   [ name |-> stage.index,
                     args |-> StageArgs(ch.in_channels, ch.bottleneck_channels,
                                        ch.out_channels, stage.block_count,
                                        h.num_groups, h.stride_in_1x1,
                                        stride[1], h.dilation, h.with_dcn,
                                        <<>>, UseUnfixedBn(c, stage.index)) ]),
      stride |-> None,
      stages |-> Append(st.stages, stage.index) ]

RECURSIVE HeadLoop(_, _, _, _, _)
\* the loop `for stage in stages`, from the i-th stage on
HeadLoop(c, h, ch, i, st) ==
    IF i >= Len(h.stages) THEN st
    ELSE HeadLoop(c, h, ch, i + 1, HeadStep(c, h, ch, Idx(h.stages, i), st))

\* ResNetHead(cfg, block_module, stages, ...): stages[0] raises IndexError
\* for an empty list and the registry lookup of line 445 KeyError
ResNetHeadInit(c, h) ==
    IF ~InRange(h.stages, 0)
      THEN [state |-> "IndexError", calls |-> <<>>, stages |-> <<>>,
            out_channels |-> 0]
    ELSE IF h.block_module \notin TRANSFORMATION_MODULES
      THEN [state |-> "KeyError", calls |-> <<>>, stages |-> <<>>,
            out_channels |-> 0]
    ELSE LET ch == HeadChannels(h)
             st == HeadLoop(c, h, ch, 0, [ calls |-> <<>>,
                                           stride |-> h.stride_init,
                                           stages |-> <<>> ])
         IN [ state |-> "returned", calls |-> st.calls, stages |-> st.stages,
              out_channels |-> ch.out_channels ]

\* the stage lists a head is built from: the res5 head of the detectors,
\* other single stages, and runs of two or three stages
HeadStageLists ==
    { <<>>,
      << StageSpec(4, 3, FALSE) >>,
      << StageSpec(1, 3, FALSE) >>,
      << StageSpec(3, 6, FALSE) >>,
      << StageSpec(3, 6, FALSE), StageSpec(4, 3, FALSE) >>,
      << StageSpec(1, 3, FALSE), StageSpec(2, 4, FALSE) >>,
      << StageSpec(2, 4, FALSE), StageSpec(3, 6, FALSE),
         StageSpec(4, 3, FALSE) >> }

HeadInputs ==
    { HeadArgs(m, s, ch[1], ch[2], s1, si, ch[3], d, FALSE) :
        m \in {"BottleneckWithFixedBatchNorm", "Bottleneck"},
        s \in HeadStageLists,
        ch \in { <<1, 64, 256>>, <<32, 8, 256>>, <<2, 4, 32>> },
        s1 \in BOOLEAN,
        si \in {None, Some(0), Some(1), Some(2)},
        d \in {1, 2} }

InitHead ==
    /\ cfg \in { Default("R-50-C4"),
                 [Default("R-50-C4") EXCEPT !.DONT_LOAD = {4}] }
    /\ pc = "idle"
    /\ call \in { [ state |-> "pending", args |-> h, calls |-> <<>>,
                    stages |-> <<>>, out_channels |-> 0 ] :
                  h \in HeadInputs }
    /\ Idle

\* resnet.py 424-475
ConstructResNetHead ==
    /\ call.state = "pending"
    /\ LET r == ResNetHeadInit(cfg, call.args) IN
       call' = [call EXCEPT !.state = r.state, !.calls = r.calls,
                            !.stages = r.stages,
                            !.out_channels = r.out_channels]
    /\ UNCHANGED <<cfg, pc, error, stem, strides, in_channels, stage_idx,
                   layers, stages, return_features, calls, stage_index, model,
                   rpn, roi_heads, x, outputs, fwd_idx>>

NextHead == ConstructResNetHead

SpecHead == InitHead /\ [][NextHead]_vars

\* C14: every head stage with index i gets bottleneck_channels = num_groups
\* x width_per_group x 2^(i-1) and out_channels = res2_out_channels x
\* 2^(i-1); the first head stage's in_channels is half its out_channels and
\* every later one's equals the previous stage's out_channels; the head's
\* out_channels is the last stage's out_channels.
C14_HeadChannels ==
    call.state = "returned" =>
        /\ \A n \in 1..Len(call.calls) :
             LET i == call.args.stages[n].index
                 a == call.calls[n].args
             IN /\ a.bottleneck_channels =
                     call.args.num_groups * call.args.width_per_group
                       * 2 ^ (i - 1)
                /\ a.out_channels = call.args.res2_out_channels * 2 ^ (i - 1)
                /\ a.in_channels =
                     IF n = 1 THEN a.out_channels \div 2
                     ELSE call.calls[n - 1].args.out_channels
        /\ call.out_channels = call.calls[Len(call.calls)].args.out_channels

\* what the code guarantees: the channels are as stated for a head of one
\* stage
C14_SingleStageHeadChannels ==
    (call.state = "returned" /\ Len(call.args.stages) = 1) =>
        LET i == call.args.stages[1].index
            a == call.calls[1].args
        IN /\ Len(call.calls) = 1
           /\ a.bottleneck_channels =
                call.args.num_groups * call.args.width_per_group * 2 ^ (i - 1)
           /\ a.out_channels = call.args.res2_out_channels * 2 ^ (i - 1)
           /\ a.in_channels = a.out_channels \div 2
           /\ call.out_channels = a.out_channels

\* the first_stride the parity rule gives a stage
ParityRule(index) == IF index = 1 THEN 1 ELSE 2

\* C17: the first head stage is built with first_stride = stride_init when
\* stride_init is set (not None, not zero) and with the parity rule (1 for
\* index 1, else 2) otherwise; every later head stage is built with the
\* parity rule whatever stride_init is.
C17_StrideInitFirstStageOnly ==
    call.state = "returned" =>
        /\ Len(call.calls) = Len(call.args.stages)
        /\ \A n \in 1..Len(call.calls) :
             LET i == call.args.stages[n].index
                 si == call.args.stride_init
             IN call.calls[n].args.first_stride =
                  IF n = 1 /\ si # None /\ si # Some(0) THEN si[1]
                  ELSE ParityRule(i)

C17_Witness ==
    /\ call.state = "returned"
    /\ call.args.stride_init = Some(1)
    /\ Len(call.calls) = 3
    /\ call.calls[1].args.first_stride = 1
    /\ call.calls[2].args.first_stride = 2
    /\ call.calls[3].args.first_stride = 2

-----------------------------------------------------------------------------
(* GeneralizedRCNN.forward, generalized_rcnn.py 33-81 *)

\* a Python dict is the set of its <<key, value>> items
Keys(d) == { item[1] : item \in d }
\* d.update(e): the items of e replace those of d with the same key
DictUpdate(d, e) == { item \in d : item[1] \notin Keys(e) } \cup e

\* the loss dictionaries a collaborator may return: at most one value per key
LossKeys == {"loss_box_reg", "loss_objectness"}
LossDicts ==
    { d \in SUBSET (LossKeys \X {1, 2}) :
        \A i, j \in d : i[1] = j[1] => i = j }

\* faulty variant of TargetsMissing: the mode is not looked at
TargetsMissing_AnyMode(training, targets) == targets = None

\* line 46: self.training and targets is None
TargetsMissing(training, targets) == training /\ targets = None

\* one forward call: the mode, the targets, whether the model has ROI
\* heads, and what the RPN and the ROI heads answer
RcnnInputs ==
    [ training        : BOOLEAN,
      targets         : {None, Some("boxes")},
      has_roi_heads   : BOOLEAN,
      proposal_losses : LossDicts,
      detector_losses : LossDicts ]

InitRcnn ==
    /\ cfg = Default("R-50-C4")
    /\ pc = "idle"
    /\ call \in { [ state |-> "pending", args |-> a, invoked |-> <<>>,
                    result |-> "none", detector_losses |-> {},
                    losses |-> {} ] : a \in RcnnInputs }
    /\ Idle

RcnnStep(c) ==
    /\ call' = c
    /\ UNCHANGED <<cfg, pc, error, stem, strides, in_channels, stage_idx,
                   layers, stages, return_features, calls, stage_index, model,
                   rpn, roi_heads, x, outputs, fwd_idx>>

\* lines 46-47
RcnnCheckTargets ==
    /\ call.state = "pending"
    /\ RcnnStep([call EXCEPT !.state =
                   IF TargetsMissing(call.args.training, call.args.targets)
                     THEN "ValueError" ELSE "backbone"])

\* lines 49-52: features = self.backbone(images.tensors)
RcnnBackbone ==
    /\ call.state = "backbone"
    /\ RcnnStep([call EXCEPT !.state = "rpn",
                             !.invoked = Append(@, "backbone")])

\* lines 56-57: proposals, proposal_losses = self.rpn(...)
RcnnRpn ==
    /\ call.state = "rpn"
    /\ RcnnStep([call EXCEPT !.state = "roi_heads",
                             !.invoked = Append(@, "rpn")])

\* lines 60-66: the ROI heads give the result and the detector losses, or
\* the proposals are the result and there are no detector losses
RcnnRoiHeads ==
    /\ call.state = "roi_heads"
    /\ IF call.args.has_roi_heads
         THEN RcnnStep([call EXCEPT !.state = "return",
                                    !.invoked = Append(@, "roi_heads"),
                                    !.result = "detections",
                                    !.detector_losses =
                                        call.args.detector_losses])
         ELSE RcnnStep([call EXCEPT !.state = "return",
                                    !.result = "proposals",
                                    !.detector_losses = {}])

\* lines 75-81: the losses in training mode, the result otherwise
RcnnReturn ==
    /\ call.state = "return"
    /\ IF call.args.training
         THEN RcnnStep([call EXCEPT
                  !.state = "returned losses",
                  !.losses = DictUpdate(DictUpdate({}, call.detector_losses),
                                        call.args.proposal_losses)])
         ELSE RcnnStep([call EXCEPT !.state = "returned result"])

NextRcnn ==
    \/ RcnnCheckTargets
    \/ RcnnBackbone
    \/ RcnnRpn
    \/ RcnnRoiHeads
    \/ RcnnReturn

SpecRcnn == InitRcnn /\ [][NextRcnn]_vars

RcnnFinished == call.state \in {"ValueError", "returned losses", "returned result"}

\* C15: forward in training mode with targets None raises ValueError before
\* the backbone, the RPN or the ROI heads are invoked; otherwise it returns,
\* in training mode, the loss dictionary merged from the detector losses
\* and the proposal losses and, in evaluation mode, the result, which is
\* the RPN's proposals when the model has no ROI heads.
C15_Forward ==
    RcnnFinished =>
        IF call.args.training /\ call.args.targets = None
          THEN call.state = "ValueError" /\ call.invoked = <<>>
        ELSE IF call.args.training
          THEN /\ call.state = "returned losses"
               /\ Keys(call.losses) =
                    Keys(call.args.proposal_losses)
                    \cup (IF call.args.has_roi_heads
                            THEN Keys(call.args.detector_losses) ELSE {})
               /\ call.args.proposal_losses \subseteq call.losses
               /\ \A item \in call.losses :
                    \/ item \in call.args.proposal_losses
                    \/ /\ call.args.has_roi_heads
                       /\ item \in call.args.detector_losses
          ELSE /\ call.state = "returned result"
               /\ call.result = IF call.args.has_roi_heads
                                  THEN "detections" ELSE "proposals"

\* a training call of a model without ROI heads: the losses are those of
\* the RPN alone
C15_Witness ==
    /\ call.state = "returned losses"
    /\ ~call.args.has_roi_heads
    /\ call.args.detector_losses # {}
    /\ call.args.proposal_losses = {<<"loss_objectness", 2>>}
    /\ call.losses = {<<"loss_objectness", 2>>}
    /\ call.invoked = <<"backbone", "rpn">>

-----------------------------------------------------------------------------
(* The catalogue and the registry lookup of build_backbone *)

\* the stage specs are numbered 1..K without gaps, K >= 1, every stage has
\* at least one block and at least one stage is exported
WellFormedSpecs(specs) ==
    /\ Len(specs) >= 1
    /\ \A i \in 1..Len(specs) :
         specs[i].index = i /\ specs[i].block_count >= 1
    /\ \E i \in 1..Len(specs) : specs[i].return_features

\* nothing has been constructed
NothingConstructed ==
    /\ ~stem.constructed
    /\ layers = <<>> /\ stages = <<>> /\ calls = <<>>
    /\ model.modules = <<>>
    /\ ~rpn.built /\ ~roi_heads.built

\* C16: for every name registered in the stage-spec catalogue the StageSpec
\* sequence has the indices 1..K for some K >= 1, in increasing order
\* without gaps, every block_count >= 1 and at least one exported stage;
\* build_backbone with a name absent from the backbone registry fails
\* before any module is constructed.
C16_Catalogue ==
    /\ \A name \in StageSpecNames : WellFormedSpecs(STAGE_SPECS(name))
    /\ cfg.CONV_BODY \in StageSpecNames => WellFormedSpecs(Specs)
    /\ (cfg.CONV_BODY \notin StageSpecNames /\ pc # "build_backbone") =>
         /\ pc = "failed"
         /\ error = Raise("AssertionError", "BACKBONES")
         /\ NothingConstructed

C16_Witness ==
    /\ pc = "failed"
    /\ cfg.CONV_BODY = "VGG-16"
    /\ error = Raise("AssertionError", "BACKBONES")
    /\ NothingConstructed

-----------------------------------------------------------------------------
(* Freezing beyond the final stage *)

\* the stem and all K stages are frozen
EverythingFrozen ==
    /\ ~stem.requires_grad
    /\ DOMAIN layers = 1..K
    /\ \A i \in 1..K : AllFrozen(layers[i])

\* _freeze_backbone failed on a layer that does not exist
MissingStage == pc = "failed" /\ error.at = "layer"

\* C18: for an architecture with K stages, construction with
\* FREEZE_CONV_BODY_AT = K + 1 is not stopped by the freezing and leaves the
\* stem and all K stages frozen; with FREEZE_CONV_BODY_AT > K + 1 it never
\* completes: it fails on the lookup of layer K+1 (AttributeError), and only
\* after the stem and all K stages have been frozen.
C18_FreezeBeyondFinalStage ==
    LET f == cfg.FREEZE_CONV_BODY_AT IN
    /\ f = K + 1 => ~MissingStage /\ (Constructed => EverythingFrozen)
    /\ f > K + 1 => ~Constructed
    /\ (f > K + 1 /\ pc = "failed" /\ K >= 1 /\ Len(stages) = K) => MissingStage
    /\ MissingStage =>
         /\ f > K + 1
         /\ error.kind = "AttributeError"
         /\ stage_index = K + 1
         /\ EverythingFrozen

C18_Witness ==
    /\ MissingStage
    /\ K = 3
    /\ cfg.FREEZE_CONV_BODY_AT = K + 2
    /\ stage_index = 4
    /\ EverythingFrozen

\* a construction with FREEZE_CONV_BODY_AT = K + 1 that completed
C18_WitnessAllFrozen ==
    /\ Constructed
    /\ cfg.FREEZE_CONV_BODY_AT = K + 1
    /\ EverythingFrozen

====
